---- MODULE Spec2Model ----
(***************************************************************************)
(* A model of NetworkEnv (src/env.py): a network of num_nodes nodes whose  *)
(* links an agent opens and closes; traffic demands are routed by hop      *)
(* count over the open links and the reward is minus the number of         *)
(* overloaded links.                                                       *)
(*                                                                         *)
(* Nodes are the integers 0 .. num_nodes-1, as in the source.  Python      *)
(* lists and numpy vectors are TLA+ sequences, so the link with Python     *)
(* index i is element i+1 of edge_list, usage and link_open.               *)
(***************************************************************************)
EXTENDS Integers, Sequences, FiniteSets, TLC

VARIABLES
    num_nodes,        \* self.num_nodes
    max_interfaces,   \* self.max_interfaces
    max_capacity,     \* self.max_capacity
    max_steps,        \* self.max_steps
    graph,            \* self.graph: node -> adjacency list, in insertion order
    edge_list,        \* self.edge_list
    current_step,     \* self.current_step
    traffic,          \* self.traffic: None, or the demand matrix
    link_open,        \* self.link_open
    usage,            \* self.usage
    call,             \* the last call made on the object, with its argument
    ret,              \* how that call ended: what it returned or raised
    np_random,        \* np.random: the generator of the process, which every
                      \* instance seeds and draws from
    peer,             \* another NetworkEnv of the same process, or None
    own_random        \* history: what np_random would be, had only this
                      \* object's calls seeded it and drawn from it

vars == <<num_nodes, max_interfaces, max_capacity, max_steps, graph, edge_list,
          current_step, traffic, link_open, usage, call, ret,
          np_random, peer, own_random>>

-----------------------------------------------------------------------------
(* Bounds of the model *)

\* the environment is built with 0 .. MaxNodes nodes
MaxNodes == 3
\* the topology generator alone is explored up to this many nodes
MaxTopologyNodes == 4
\* max_interfaces ranges over 1 .. MaxInterfaceLimit
MaxInterfaceLimit == 2
\* and over 0 .. MaxTopologyInterfaces where the generator alone is explored
MaxTopologyInterfaces == 3
\* max_steps ranges over 1 .. MaxHorizon
MaxHorizon == 2
\* step is called while current_step < MaxCalls
MaxCalls == 2
\* a demand matrix has at most MaxDemands positive entries
MaxDemands == 1
\* and at most MaxRoutedDemands where the routing alone is explored
MaxRoutedDemands == 2

\* a seed is drawn from 0 .. MaxSeed
MaxSeed == 1
\* a call draws from a seeded generator while it has given at most MaxDrawn
\* words
MaxDrawn == 8
\* an argument of __init__ is drawn from -MaxBelow upwards where the
\* arguments it accepts are explored
MaxBelow == 1

\* the defaults of __init__'s arguments
DefaultMaxInterfaces == 4
DefaultMaxCapacity == 100
DefaultMaxSteps == 10

\* the values max_capacity is drawn from: none is negative
CapacityValues == {0, 10}
\* and where ample capacities are explored: above 5 + 5 and 5 + 15, below
\* 15 + 15
AmpleCapacityValues == {25}
\* the positive values a demand is drawn from (the source draws from 0 .. 49)
DemandValues == {5, 15}
\* the values an entry of an action is drawn from
ActionValues == {0, 1}
\* and where the flags are explored: 0, 1 and a value that is neither
FlagValues == {0, 1, 2}

-----------------------------------------------------------------------------
(* Sequences *)

Range(s) == {s[k] : k \in 1..Len(s)}

RECURSIVE PermSeqs(_)
\* every ordering of the set S, each as a sequence: the outcomes of a shuffle
PermSeqs(S) ==
    IF S = {} THEN {<<>>}
    ELSE UNION {{<<x>> \o p : p \in PermSeqs(S \ {x})} : x \in S}

RECURSIVE SumSeq(_)
SumSeq(s) == IF s = <<>> THEN 0 ELSE s[1] + SumSeq(Tail(s))

RECURSIVE Reverse(_)
Reverse(s) == IF s = <<>> THEN <<>> ELSE Append(Reverse(Tail(s)), s[1])

Zeros(n) == [k \in 1..n |-> 0]

Ones(n) == [k \in 1..n |-> 1]

-----------------------------------------------------------------------------
(* networkx.Graph: adjacency lists in insertion order, each entry holding   *)
(* the neighbour and the edge's capacity attribute                          *)

Nodes(n) == 0..(n - 1)

\* nx.Graph() followed by add_node(0) .. add_node(n-1)
EmptyGraph(n) == [u \in Nodes(n) |-> <<>>]

has_edge(G, u, v) == u \in DOMAIN G /\ \E k \in 1..Len(G[u]) : G[u][k].nbr = v

degree(G, u) == Len(G[u])

\* add_edge(u, v, capacity=c) for two distinct nodes: a new edge is appended
\* to both adjacency lists, an existing one keeps its place
add_edge(G, u, v, c) ==
    IF has_edge(G, u, v) THEN G
    ELSE [G EXCEPT ![u] = Append(@, [nbr |-> v, capacity |-> c]),
                   ![v] = Append(@, [nbr |-> u, capacity |-> c])]

\* self.graph[u][v]['capacity']
Capacity(G, u, v) ==
    LET k == CHOOSE k \in 1..Len(G[u]) : G[u][k].nbr = v IN G[u][k].capacity

RECURSIVE EdgesFrom(_, _, _)
\* list(graph.edges()): the nodes in insertion order, and for each node its
\* neighbours that were not iterated before it
EdgesFrom(G, n, u) ==
    IF u >= n THEN <<>>
    ELSE SelectSeq([k \in 1..Len(G[u]) |-> <<u, G[u][k].nbr>>],
                   LAMBDA e : e[2] >= u)
         \o EdgesFrom(G, n, u + 1)

Edges(G, n) == EdgesFrom(G, n, 0)

-----------------------------------------------------------------------------
(* _build_topology *)

RECURSIVE ChainFrom_Limited(_, _, _, _, _)
\* a variant of step 1 that links two consecutive nodes only while both are
\* below the interface limit
ChainFrom_Limited(G, all_nodes, m, c, k) ==
    IF k > Len(all_nodes) - 1 THEN G
    ELSE LET u == all_nodes[k]
             v == all_nodes[k + 1]
         IN ChainFrom_Limited(IF ~has_edge(G, u, v) /\ degree(G, u) < m /\ degree(G, v) < m
                              THEN add_edge(G, u, v, c) ELSE G,
                              all_nodes, m, c, k + 1)

RECURSIVE ChainFrom(_, _, _, _, _)
\* step 1: for i in range(len(all_nodes) - 1), from Python index i = k - 1:
\* consecutive nodes of the permutation are linked, whatever their degree
ChainFrom(G, all_nodes, m, c, k) ==
    IF k > Len(all_nodes) - 1 THEN G
    ELSE LET u == all_nodes[k]
             v == all_nodes[k + 1]
         IN ChainFrom(IF ~has_edge(G, u, v) THEN add_edge(G, u, v, c) ELSE G,
                      all_nodes, m, c, k + 1)

RECURSIVE PairsFrom(_, _, _, _)
\* the pairs (i, j), i < j, in the order of the two nested loops, that are
\* not linked
PairsFrom(G, n, i, j) ==
    IF i >= n THEN <<>>
    ELSE IF j >= n THEN PairsFrom(G, n, i + 1, i + 2)
    ELSE (IF has_edge(G, i, j) THEN <<>> ELSE <<<<i, j>>>>)
         \o PairsFrom(G, n, i, j + 1)

\* a variant whose inner loop starts at the node itself
possible_edges_Loops(G, n) == PairsFrom(G, n, 0, 0)

possible_edges(G, n) == PairsFrom(G, n, 0, 1)

\* the interface limit checked before a random extra edge is added
BelowInterfaceLimit(G, u, v, m) == degree(G, u) < m /\ degree(G, v) < m

RECURSIVE ExtraFrom(_, _, _, _, _)
\* step 2: the shuffled candidate edges, each added if both ends are below
\* the interface limit
ExtraFrom(G, shuffled, m, c, k) ==
    IF k > Len(shuffled) THEN G
    ELSE LET u == shuffled[k][1]
             v == shuffled[k][2]
         IN ExtraFrom(IF BelowInterfaceLimit(G, u, v, m) THEN add_edge(G, u, v, c) ELSE G,
                      shuffled, m, c, k + 1)

\* the graph after step 1, for the outcome all_nodes of the first shuffle
Chain(n, m, c, all_nodes) == ChainFrom(EmptyGraph(n), all_nodes, m, c, 1)

\* the outcomes of the second shuffle: the orderings of possible_edges
Shuffles(G, n) == PermSeqs(Range(possible_edges(G, n)))

\* the graph step 2 makes of the graph G that step 1 built, for the outcome
\* shuffled of the second shuffle
Extra(G, shuffled, m, c) == ExtraFrom(G, shuffled, m, c, 1)

-----------------------------------------------------------------------------
(* np.random once it is seeded: the Mersenne Twister MT19937, seeded by    *)
(* np.random.seed(s).  The generator is a record of its seed and of how    *)
(* many 32-bit words it has given since.  StreamWords holds the first      *)
(* words of the generator for the seeds 0, 1 and 2, each word w as         *)
(* <<w \div 65536, w % 65536>>: its high and its low 16 bits.              *)

StreamWords ==
<<
    \* np.random.seed(0)
    <<
       <<35967, 2732>>, <<38852, 43567>>, <<46870, 42613>>, <<55329, 52416>>,
       <<39502, 45891>>, <<56226, 21243>>, <<35709, 30403>>, <<55525, 32103>>,
       <<27764, 41993>>, <<40865, 57043>>, <<42329, 20757>>, <<25190, 55026>>,
       <<28677, 46884>>, <<19499, 14935>>, <<58443, 15430>>, <<3716, 48600>>,
       <<63154, 39512>>, <<17868, 52620>>, <<25129, 14650>>, <<31304, 17089>>,
       <<51886, 32230>>, <<53226, 18983>>, <<34661, 43095>>, <<31455, 51374>>,
       <<37227, 24152>>, <<25741, 35665>>, <<60659, 59045>>, <<54793, 16921>>,
       <<4655, 27469>>, <<22111, 38984>>, <<5710, 6921>>, <<42478, 38804>>,
       <<1325, 2163>>, <<24133, 5072>>, <<54566, 37619>>, <<62728, 7877>>,
       <<50997, 18430>>, <<9198, 1871>>, <<57017, 7599>>, <<57022, 2496>>,
       <<64134, 47954>>, <<31038, 24675>>, <<52373, 42968>>, <<52488, 31921>>,
       <<30243, 33523>>, <<34110, 797>>, <<51152, 49811>>, <<44491, 3219>>,
       <<7751, 15246>>, <<47227, 24999>>, <<41937, 56608>>, <<38143, 16321>>,
       <<9394, 52489>>, <<35217, 19129>>, <<61909, 53887>>, <<49716, 41504>>,
       <<34199, 55839>>, <<6940, 49866>>, <<27175, 18676>>, <<31037, 57495>>,
       <<17337, 60067>>, <<12211, 31230>>, <<50740, 11723>>, <<48294, 43890>>,
       <<29894, 17591>>, <<14191, 55324>>, <<37252, 58146>>, <<8861, 43136>>,
       <<1231, 26752>>, <<21242, 59300>>, <<40477, 23605>>, <<9809, 6021>>,
       <<40114, 20006>>, <<14570, 3560>>, <<40431, 25332>>, <<25328, 61713>>,
       <<61849, 31055>>, <<59152, 45444>>, <<44683, 50793>>, <<29487, 60458>>,
       <<23560, 46522>>, <<40177, 47647>>, <<28641, 21368>>, <<59136, 20737>>,
       <<45719, 62785>>, <<6506, 28647>>, <<3946, 61353>>, <<63557, 26681>>,
       <<43697, 14627>>, <<42804, 12134>>, <<43950, 60535>>, <<11200, 47883>>,
       <<13787, 41390>>, <<23471, 56402>>, <<8449, 20571>>, <<49196, 63360>>
    >>,
    \* np.random.seed(1)
    <<
       <<27329, 62501>>, <<65351, 33003>>, <<47207, 12172>>, <<61116, 5192>>,
       <<7, 32511>>, <<8396, 50057>>, <<19813, 43723>>, <<65473, 7813>>,
       <<9617, 52047>>, <<15472, 21440>>, <<6051, 32912>>, <<25990, 20609>>,
       <<12206, 49100>>, <<25422, 7751>>, <<22646, 43757>>, <<43892, 31228>>,
       <<26002, 36230>>, <<61311, 32025>>, <<35311, 58546>>, <<55463, 54548>>,
       <<27472, 21758>>, <<20530, 45413>>, <<44906, 35730>>, <<34376, 51668>>,
       <<13398, 64395>>, <<29062, 8444>>, <<57548, 19946>>, <<15045, 37532>>,
       <<1794, 57245>>, <<35023, 22926>>, <<43939, 49714>>, <<59897, 27204>>,
       <<27348, 31959>>, <<29963, 24535>>, <<36614, 19433>>, <<28226, 17137>>,
       <<9200, 26103>>, <<61546, 44510>>, <<12982, 51040>>, <<51012, 33878>>,
       <<52477, 39053>>, <<46921, 55273>>, <<63455, 64905>>, <<52609, 33799>>,
       <<20540, 37183>>, <<6081, 52029>>, <<45372, 3606>>, <<33957, 42297>>,
       <<57435, 2561>>, <<56689, 63360>>, <<58628, 61756>>, <<54338, 63697>>,
       <<5573, 29960>>, <<54368, 58072>>, <<2559, 32397>>, <<17894, 39539>>,
       <<11130, 431>>, <<3882, 36842>>, <<57549, 62073>>, <<43943, 47560>>,
       <<6445, 16926>>, <<38867, 9287>>, <<27597, 46467>>, <<44017, 34246>>,
       <<62776, 16277>>, <<26986, 60977>>, <<34941, 34105>>, <<12946, 45571>>,
       <<45342, 56260>>, <<18981, 11032>>, <<20677, 41457>>, <<9313, 64555>>,
       <<44990, 34380>>, <<51335, 19482>>, <<54698, 1844>>, <<27036, 9552>>,
       <<1198, 35437>>, <<2239, 29555>>, <<49161, 29993>>, <<40896, 28114>>,
       <<64806, 15>>, <<43295, 27712>>, <<49031, 51396>>, <<19562, 12313>>,
       <<18379, 11631>>, <<29237, 57058>>, <<51726, 13783>>, <<14557, 10119>>,
       <<6765, 1306>>, <<4807, 65177>>, <<29353, 9832>>, <<30752, 1046>>,
       <<59545, 46857>>, <<6302, 48835>>, <<19242, 19431>>, <<59203, 17534>>
    >>,
    \* np.random.seed(2)
    <<
       <<28573, 23720>>, <<12129, 35343>>, <<1699, 6637>>, <<61049, 30280>>,
       <<36022, 44566>>, <<62110, 31019>>, <<28529, 18898>>, <<31768, 33867>>,
       <<27549, 14696>>, <<21006, 44295>>, <<21648, 53922>>, <<10120, 33201>>,
       <<13411, 55903>>, <<45800, 43595>>, <<40584, 35541>>, <<7861, 5167>>,
       <<19638, 11071>>, <<31796, 32031>>, <<17486, 51930>>, <<41467, 6548>>,
       <<40706, 41084>>, <<53623, 20084>>, <<34677, 56101>>, <<44762, 51879>>,
       <<8819, 54467>>, <<32673, 46182>>, <<33657, 56068>>, <<38456, 21418>>,
       <<12087, 29547>>, <<47169, 53299>>, <<51467, 47463>>, <<16940, 60966>>,
       <<55966, 8170>>, <<35796, 15905>>, <<32390, 20026>>, <<26693, 21372>>,
       <<55480, 16639>>, <<11598, 56643>>, <<5219, 42309>>, <<63545, 54360>>,
       <<33111, 52932>>, <<19465, 25902>>, <<4278, 40390>>, <<18865, 50527>>,
       <<28057, 27859>>, <<7614, 55417>>, <<6326, 16415>>, <<11909, 43458>>,
       <<8333, 36432>>, <<32393, 50740>>, <<39108, 19694>>, <<37077, 64460>>,
       <<14811, 60466>>, <<14538, 12420>>, <<7008, 51930>>, <<50298, 19775>>,
       <<14437, 64719>>, <<37834, 30257>>, <<22926, 14119>>, <<10998, 30719>>,
       <<30656, 60334>>, <<24082, 39560>>, <<13221, 29106>>, <<30714, 65005>>,
       <<41969, 45562>>, <<42877, 64783>>, <<31658, 30441>>, <<51975, 60909>>,
       <<33111, 12680>>, <<43454, 27383>>, <<25355, 26001>>, <<40175, 33686>>,
       <<52011, 54008>>, <<64936, 31226>>, <<38011, 10101>>, <<7830, 36425>>,
       <<10636, 26297>>, <<9736, 22377>>, <<45924, 33134>>, <<55855, 5884>>,
       <<63212, 53722>>, <<33392, 18878>>, <<32768, 35923>>, <<14239, 96>>,
       <<58295, 38443>>, <<65094, 45856>>, <<22387, 65050>>, <<20663, 22002>>,
       <<37168, 23432>>, <<16956, 22092>>, <<28019, 42750>>, <<53030, 7306>>,
       <<28622, 43816>>, <<23178, 30754>>, <<50892, 38204>>, <<30660, 34441>>
    >>
>>

\* the word the generator seeded with s gives after d words
StreamValue(s, d) == StreamWords[s + 1][d + 1]

\* np.random.seed(s)
np_random_seed(s) == [kind |-> "seeded", seed |-> s, drawn |-> 0]

\* the generator after k more words
Advance(g, k) == [g EXCEPT !.drawn = @ + k]

RECURSIVE MaskFrom(_, _)
MaskFrom(mask, max) == IF mask >= max THEN mask ELSE MaskFrom(2 * mask + 1, max)

\* the smallest 2^k - 1 that is at least max, for max below 65536
Mask(max) == MaskFrom(1, max)

RECURSIVE MaskedDraw(_, _, _)
\* while ((value = (next_uint32 & mask)) > max): a word whose masked value is
\* above max is dropped and the next word is taken
MaskedDraw(g, mask, max) ==
    LET value == StreamValue(g.seed, g.drawn)[2] % (mask + 1)
    IN IF value <= max THEN [value |-> value, rng |-> Advance(g, 1)]
       ELSE MaskedDraw(Advance(g, 1), mask, max)

\* a draw from 0 .. max, and the generator it leaves; no word is taken for
\* max = 0
random_interval(g, max) ==
    IF max = 0 THEN [value |-> 0, rng |-> g] ELSE MaskedDraw(g, Mask(max), max)

RECURSIVE ShuffleFrom(_, _, _)
\* np.random.shuffle of a list: for i in reversed(range(1, n)):
\* j = random_interval(i); x[i], x[j] = x[j], x[i], from Python index
\* i = k - 1
ShuffleFrom(x, g, k) ==
    IF k < 2 THEN [list |-> x, rng |-> g]
    ELSE LET r == random_interval(g, k - 1)
             j == r.value + 1
         IN ShuffleFrom([x EXCEPT ![k] = x[j], ![j] = x[k]], r.rng, k - 1)

np_random_shuffle(x, g) == ShuffleFrom(x, g, Len(x))

RECURSIVE RandintFrom(_, _, _, _)
\* count bounded draws from 0 .. max, one after the other
RandintFrom(g, max, count, values) ==
    IF count <= 0 THEN [values |-> values, rng |-> g]
    ELSE LET r == random_interval(g, max)
         IN RandintFrom(r.rng, max, count - 1, Append(values, r.value))

\* np.random.randint(low, high, size=(n, n)): n * n draws from
\* low .. high - 1, filled in row by row
np_random_randint(g, low, high, n) ==
    LET r == RandintFrom(g, high - low - 1, n * n, <<>>)
    IN [data |-> [i \in Nodes(n) |-> [j \in Nodes(n) |-> low + r.values[i * n + j + 1]]],
        rng |-> r.rng]

\* for i in range(num_nodes): traffic[i, i] = 0
ZeroDiagonal(data) ==
    [i \in DOMAIN data |-> [j \in DOMAIN data[i] |-> IF i = j THEN 0 ELSE data[i][j]]]

\* step 2 of _build_topology on the graph G1 of step 1, drawing from g
SeededExtra(G1, n, m, c, g) ==
    LET r == np_random_shuffle(possible_edges(G1, n), g)
    IN [graph |-> Extra(G1, r.list, m, c), rng |-> r.rng]

\* step 1, drawing from g
SeededChain(n, m, c, g) ==
    LET r == np_random_shuffle([k \in 1..n |-> k - 1], g)
    IN [graph |-> Chain(n, m, c, r.list), rng |-> r.rng]

\* _build_topology drawing from the generator g: the graph, and the
\* generator it leaves
build_topology(n, m, c, g) ==
    LET r1 == SeededChain(n, m, c, g)
    IN SeededExtra(r1.graph, n, m, c, r1.rng)

-----------------------------------------------------------------------------
(* nx.shortest_path(G, source, target) without weights: networkx's          *)
(* bidirectional breadth-first search                                       *)

\* pred and succ map a node to its parent in the search, to None at the
\* search's root, and to Unset while the node is not a key of the dict
None == -1
Unset == -2

\* what stands for the NetworkXNoPath exception: no list of nodes is empty
NoPath == <<>>

RECURSIVE Scan(_, _, _, _, _, _, _)
\* one level of one search: for v in this_level: for w in G.adj[v]: a node
\* w new to this search (own) joins the next fringe with parent v, and a w
\* the opposite search (other) has reached ends the search
Scan(G, own, other, this_level, vi, wi, fringe) ==
    IF vi > Len(this_level) THEN [found |-> None, own |-> own, fringe |-> fringe]
    ELSE LET v == this_level[vi] IN
         IF wi > Len(G[v]) THEN Scan(G, own, other, this_level, vi + 1, 1, fringe)
         ELSE LET w == G[v][wi].nbr
                  isNew == own[w] = Unset
                  own2 == IF isNew THEN [own EXCEPT ![w] = v] ELSE own
                  fringe2 == IF isNew THEN Append(fringe, w) ELSE fringe
              IN IF other[w] # Unset
                 THEN [found |-> w, own |-> own2, fringe |-> fringe2]
                 ELSE Scan(G, own2, other, this_level, vi, wi + 1, fringe2)

RECURSIVE PredSucc(_, _, _, _, _)

\* what follows the expansion r of one level: the meeting node w with both
\* dicts, or the search's next round
AfterScan(G, pred, succ, forward_fringe, reverse_fringe, forward, r) ==
    IF forward
    THEN IF r.found # None THEN <<r.own, succ, r.found>>
         ELSE PredSucc(G, r.own, succ, r.fringe, reverse_fringe)
    ELSE IF r.found # None THEN <<pred, r.own, r.found>>
         ELSE PredSucc(G, pred, r.own, forward_fringe, r.fringe)

\* _bidirectional_pred_succ's loop: the smaller fringe is expanded, the
\* forward one on a tie, until the searches meet or a fringe is empty
PredSucc(G, pred, succ, forward_fringe, reverse_fringe) ==
    IF forward_fringe = <<>> \/ reverse_fringe = <<>> THEN NoPath
    ELSE IF Len(forward_fringe) <= Len(reverse_fringe)
    THEN AfterScan(G, pred, succ, forward_fringe, reverse_fringe, TRUE,
                   Scan(G, pred, succ, forward_fringe, 1, 1, <<>>))
    ELSE AfterScan(G, pred, succ, forward_fringe, reverse_fringe, FALSE,
                   Scan(G, succ, pred, reverse_fringe, 1, 1, <<>>))

RECURSIVE Climb(_, _)
\* w, parent[w], parent[parent[w]], ... up to the root of the search
Climb(parent, w) == IF w = None THEN <<>> ELSE <<w>> \o Climb(parent, parent[w])

\* the path through the meeting node r[3]: up pred to the source, reversed,
\* then down succ to the target
BuildPath(r) ==
    IF r = NoPath THEN NoPath
    ELSE Reverse(Climb(r[1], r[3])) \o Tail(Climb(r[2], r[3]))

\* the list of nodes nx.shortest_path returns, or NoPath when it raises
\* NetworkXNoPath
shortest_path(G, source, target) ==
    IF source = target THEN <<source>>
    ELSE BuildPath(PredSucc(G,
                            [x \in DOMAIN G |-> IF x = source THEN None ELSE Unset],
                            [x \in DOMAIN G |-> IF x = target THEN None ELSE Unset],
                            <<source>>, <<target>>))

-----------------------------------------------------------------------------
(* _update_link_usage, _edge_index, _count_overloaded_links,                *)
(* _get_observation                                                         *)

\* a variant that reads the flags the wrong way round
IsOpen_Inverted(lo, k) == lo[k] = 0

\* a link is part of the open subgraph when its flag equals 1
IsOpen(lo, k) == lo[k] = 1

RECURSIVE OpenFrom(_, _, _, _, _)
\* G_open: every node, and the open links in the order of edge_list
OpenFrom(G, el, lo, cg, k) ==
    IF k > Len(el) THEN G
    ELSE OpenFrom(IF IsOpen(lo, k)
                  THEN add_edge(G, el[k][1], el[k][2], Capacity(cg, el[k][1], el[k][2]))
                  ELSE G,
                  el, lo, cg, k + 1)

\* a variant that adds every link, whatever its flag
G_open_All(n, el, lo, cg) == OpenFrom(EmptyGraph(n), el, Ones(Len(el)), cg, 1)

G_open(n, el, lo, cg) == OpenFrom(EmptyGraph(n), el, lo, cg, 1)

\* a variant that matches a link in its stored direction only
edge_index_Forward(el, u, v) ==
    LET hits == {k \in 1..Len(el) : el[k][1] = u /\ el[k][2] = v}
    IN IF hits = {} THEN None ELSE CHOOSE k \in hits : \A h \in hits : k <= h

\* _edge_index: the first index whose link joins u and v in either
\* direction, or None
edge_index(el, u, v) ==
    LET hits == {k \in 1..Len(el) : \/ (el[k][1] = u /\ el[k][2] = v)
                                    \/ (el[k][1] = v /\ el[k][2] = u)}
    IN IF hits = {} THEN None ELSE CHOOSE k \in hits : \A h \in hits : k <= h

RECURSIVE AddAlong_Twice(_, _, _, _, _)
\* a variant that adds the demand once for each direction of the link
AddAlong_Twice(us, el, path, demand, k) ==
    IF k > Len(path) - 1 THEN us
    ELSE LET idx == edge_index(el, path[k], path[k + 1])
         IN AddAlong_Twice(IF idx # None THEN [us EXCEPT ![idx] = @ + demand + demand] ELSE us,
                           el, path, demand, k + 1)

RECURSIVE AddAlong(_, _, _, _, _)
\* for k in range(len(path) - 1): usage[edge_idx] += traffic_demand
AddAlong(us, el, path, demand, k) ==
    IF k > Len(path) - 1 THEN us
    ELSE LET idx == edge_index(el, path[k], path[k + 1])
         IN AddAlong(IF idx # None THEN [us EXCEPT ![idx] = @ + demand] ELSE us,
                     el, path, demand, k + 1)

\* a variant in which a demand without a path wipes the usage routed so far
RoutePath_Wiped(us, el, path, demand) ==
    IF path = NoPath THEN Zeros(Len(us)) ELSE AddAlong(us, el, path, demand, 1)

\* the try block for one demand, given what shortest_path returned: a path's
\* links gain the demand, and NetworkXNoPath is caught and leaves the usage
\* as it is
RoutePath(us, el, path, demand) ==
    IF path = NoPath THEN us ELSE AddAlong(us, el, path, demand, 1)

RouteDemand(us, el, Gopen, i, j, demand) ==
    RoutePath(us, el, shortest_path(Gopen, i, j), demand)

RECURSIVE RouteFrom(_, _, _, _, _, _)
\* for i in range(num_nodes): for j in range(num_nodes), as the single
\* counter p = i * num_nodes + j
RouteFrom(us, el, Gopen, tm, n, p) ==
    IF p >= n * n THEN us
    ELSE LET i == p \div n
             j == p % n
         IN RouteFrom(IF tm[i][j] > 0 /\ i # j
                      THEN RouteDemand(us, el, Gopen, i, j, tm[i][j])
                      ELSE us,
                      el, Gopen, tm, n, p + 1)

\* a variant that keeps the previous usage instead of starting from zero
FreshUsage_Carried(us, ne) == us

\* the usage vector the routing starts from
FreshUsage(us, ne) == Zeros(ne)

\* a variant that takes a missing demand matrix for one without demands
update_link_usage_Lenient(n, el, lo, cg, tr, us) ==
    LET zero == FreshUsage(us, Len(el))
    IN IF Len(lo) < Len(el) THEN [usage |-> zero, exc |-> "IndexError"]
       ELSE IF tr.kind = "None" \/ n < 1 THEN [usage |-> zero, exc |-> "none"]
       ELSE [usage |-> RouteFrom(zero, el, G_open(n, el, lo, cg), tr.data, n, 0),
             exc |-> "none"]

\* _update_link_usage: the new usage vector and the exception raised, if any.
\*  - link_open[i] with i past the end of a short link_open: IndexError, at
\*    line 222, before any demand is read
\*  - traffic[i, j] while traffic is None: TypeError, at line 230, on the
\*    first iteration
update_link_usage(n, el, lo, cg, tr, us) ==
    LET zero == FreshUsage(us, Len(el))
    IN IF Len(lo) < Len(el) THEN [usage |-> zero, exc |-> "IndexError"]
       ELSE IF tr.kind = "None" /\ n >= 1 THEN [usage |-> zero, exc |-> "TypeError"]
       ELSE IF n < 1 THEN [usage |-> zero, exc |-> "none"]
       ELSE [usage |-> RouteFrom(zero, el, G_open(n, el, lo, cg), tr.data, n, 0),
             exc |-> "none"]

\* a variant that zeroes the capacity of every link the flags do not open
GraphAfterRouting_Drained(el, lo, cg) ==
    [u \in DOMAIN cg |-> [x \in 1..Len(cg[u]) |->
        LET k == edge_index(el, u, cg[u][x].nbr)
        IN IF k # None /\ k <= Len(lo) /\ lo[k] = 1 THEN cg[u][x]
           ELSE [cg[u][x] EXCEPT !.capacity = 0]]]

\* self.graph once _update_link_usage has run: the open links are added to
\* G_open, a graph of its own, and self.graph is only read
GraphAfterRouting(el, lo, cg) == cg

\* a variant in which routing a demand consumes it
TrafficAfterRouting_Consumed(tr) ==
    IF tr.kind = "None" THEN tr
    ELSE [tr EXCEPT !.data = [i \in DOMAIN tr.data |-> [j \in DOMAIN tr.data[i] |-> 0]]]

\* self.traffic once _update_link_usage has run: the demands are only read
TrafficAfterRouting(tr) == tr

\* a variant that counts a link at exactly its capacity
Overloaded_AtCapacity(u, cap) == u >= cap

\* a link is overloaded when its usage is strictly above its capacity
Overloaded(u, cap) == u > cap

RECURSIVE CountFrom(_, _, _, _)
CountFrom(el, cg, us, k) ==
    IF k > Len(el) THEN 0
    ELSE (IF Overloaded(us[k], Capacity(cg, el[k][1], el[k][2])) THEN 1 ELSE 0)
         + CountFrom(el, cg, us, k + 1)

count_overloaded_links(el, cg, us) == CountFrom(el, cg, us, 1)

\* usage / cap as the fraction <<usage, cap>>, and 0 = <<0, 1>> when the
\* capacity is not positive
UsageRatio(u, cap) == IF cap > 0 THEN <<u, cap>> ELSE <<0, 1>>

\* _get_observation: entry 2i is the usage ratio of link i and entry 2i+1
\* its link_open flag (Python indices; here entries 2k-1 and 2k of link k)
get_observation(el, cg, us, lo) ==
    [x \in 1..(2 * Len(el)) |->
        LET k == (x + 1) \div 2 IN
        IF x % 2 = 1 THEN UsageRatio(us[k], Capacity(cg, el[k][1], el[k][2]))
        ELSE lo[k]]

-----------------------------------------------------------------------------
(* The inputs: demand matrices and actions *)

OffDiagonal(n) == {ij \in Nodes(n) \X Nodes(n) : ij[1] # ij[2]}

\* np.random.randint(0, 50, size=(n, n)) with its diagonal set to 0: here
\* every matrix with at most d positive entries, each one of DemandValues
TrafficMatrices(n, d) ==
    UNION {{[i \in Nodes(n) |-> [j \in Nodes(n) |->
                IF <<i, j>> \in S THEN f[<<i, j>>] ELSE 0]] : f \in [S -> DemandValues]}
           : S \in {T \in SUBSET OffDiagonal(n) : Cardinality(T) <= d}}

\* the actions passed to step: every vector of the right length, and the
\* all-closed and all-open vectors one entry short and one entry long
Actions(ne) ==
    [1..ne -> ActionValues]
    \cup {Zeros(l) : l \in {ne - 1, ne + 1} \cap Nat}
    \cup {Ones(l) : l \in {ne - 1, ne + 1} \cap Nat}

num_edges == Len(edge_list)

-----------------------------------------------------------------------------
(* __init__ *)

\* the fields once __init__ has run with the given arguments and the graph
\* G produced by _build_topology
Constructed(n, m, c, s, G) ==
    /\ num_nodes = n
    /\ max_interfaces = m
    /\ max_capacity = c
    /\ max_steps = s
    /\ graph = G
    /\ edge_list = Edges(G, n)
    /\ current_step = 0
    /\ traffic = [kind |-> "None"]
    /\ link_open = <<>>
    /\ usage = Zeros(Len(Edges(G, n)))
    /\ call = [op |-> "__init__"]
    /\ ret = [kind |-> "return"]

\* __init__ without a seed, in a process that never seeded np.random and
\* holds no other instance: np.random is seeded from the system's entropy,
\* and what is drawn from it is any of the possible outcomes
Unseeded ==
    /\ np_random = [kind |-> "entropy"]
    /\ own_random = [kind |-> "entropy"]
    /\ peer = [kind |-> "None"]

Init ==
    /\ Unseeded
    /\ \E n \in 0..MaxNodes, m \in 1..MaxInterfaceLimit, c \in CapacityValues,
          s \in 1..MaxHorizon :
           \E all_nodes \in PermSeqs(Nodes(n)) :
           \E G1 \in {Chain(n, m, c, all_nodes)} :
           \E shuffled \in Shuffles(G1, n) :
               Constructed(n, m, c, s, Extra(G1, shuffled, m, c))

-----------------------------------------------------------------------------
(* reset *)

\* a variant that leaves the step counter as it is
ResetCounter_Kept(cs) == cs

\* the step counter a reset leaves
ResetCounter(cs) == 0

\* the link flags the initial routing of a reset uses
ResetLinks(lo, ne) == Ones(ne)

ResetTo(tm) ==
    /\ \E lo \in {ResetLinks(link_open, num_edges)} :
       \E r \in {update_link_usage(num_nodes, edge_list, lo, graph,
                                   [kind |-> "ndarray", data |-> tm], usage)} :
           /\ current_step' = ResetCounter(current_step)
           /\ traffic' = [kind |-> "ndarray", data |-> tm]
           /\ link_open' = lo
           /\ usage' = r.usage
           /\ call' = [op |-> "reset"]
           /\ ret' = [kind |-> "return",
                      obs |-> get_observation(edge_list, graph, r.usage, lo)]
    /\ UNCHANGED <<num_nodes, max_interfaces, max_capacity, max_steps, graph, edge_list>>

Reset ==
    /\ \E tm \in TrafficMatrices(num_nodes, MaxDemands) : ResetTo(tm)
    /\ UNCHANGED <<np_random, peer, own_random>>

-----------------------------------------------------------------------------
(* step *)

\* a variant that is true only on the step that reaches the horizon
Done_OnlyAtHorizon(cs, ms) == cs = ms

\* done = (self.current_step >= self.max_steps)
Done(cs, ms) == cs >= ms

\* the step counter after one more step
NextCounter(cs) == cs + 1

\* reward = -float(overloaded_links)
Reward(overloaded) == 0 - overloaded

Step(action) ==
    /\ current_step < MaxCalls
    /\ \E r \in {update_link_usage(num_nodes, edge_list, action, graph, traffic, usage)} :
       \E overloaded_links \in {count_overloaded_links(edge_list, graph, r.usage)} :
          /\ current_step' = NextCounter(current_step)
          /\ link_open' = action
          /\ usage' = r.usage
          /\ call' = [op |-> "step", action |-> action]
          /\ ret' = IF r.exc # "none" THEN [kind |-> "raise", exc |-> r.exc]
                    ELSE [kind |-> "return",
                          obs |-> get_observation(edge_list, graph, r.usage, action),
                          reward |-> Reward(overloaded_links),
                          done |-> Done(NextCounter(current_step), max_steps),
                          info |-> [overloaded_links |-> overloaded_links]]
    /\ graph' = GraphAfterRouting(edge_list, action, graph)
    /\ traffic' = TrafficAfterRouting(traffic)
    /\ UNCHANGED <<num_nodes, max_interfaces, max_capacity, max_steps, edge_list,
                   np_random, peer, own_random>>

StepAny == \E action \in Actions(num_edges) : Step(action)

Next == Reset \/ StepAny

Spec == Init /\ [][Next]_vars

-----------------------------------------------------------------------------
(* The topology generator on its own: __init__ up to its call of           *)
(* _build_topology, then the call                                          *)

InitTopology ==
    /\ num_nodes \in 0..MaxTopologyNodes
    /\ max_interfaces \in 0..MaxTopologyInterfaces
    /\ max_capacity = 100
    /\ max_steps = 10
    /\ graph = <<>>
    /\ edge_list = <<>>
    /\ current_step = 0
    /\ traffic = [kind |-> "None"]
    /\ link_open = <<>>
    /\ usage = <<>>
    /\ call = [op |-> "__init__"]
    /\ ret = [kind |-> "running"]
    /\ Unseeded

BuildTopology ==
    /\ ret.kind = "running"
    /\ \E all_nodes \in PermSeqs(Nodes(num_nodes)) :
       \E G1 \in {Chain(num_nodes, max_interfaces, max_capacity, all_nodes)} :
       \E shuffled \in Shuffles(G1, num_nodes) :
       \E G \in {Extra(G1, shuffled, max_interfaces, max_capacity)} :
        /\ graph' = G
        /\ edge_list' = Edges(G, num_nodes)
        /\ usage' = Zeros(Len(Edges(G, num_nodes)))
    /\ ret' = [kind |-> "return"]
    /\ UNCHANGED <<num_nodes, max_interfaces, max_capacity, max_steps,
                   current_step, traffic, link_open, call,
                   np_random, peer, own_random>>

NextTopology == BuildTopology

SpecTopology == InitTopology /\ [][NextTopology]_vars

-----------------------------------------------------------------------------
(* __init__ called with arguments of either sign: nothing in it looks at   *)
(* them before _build_topology runs, and range(n) is empty for n <= 0      *)

InitConfiguration ==
    /\ num_nodes \in (0 - MaxBelow)..MaxNodes
    /\ max_interfaces \in (0 - MaxBelow)..MaxInterfaceLimit
    /\ max_steps \in (0 - MaxBelow)..MaxHorizon
    /\ max_capacity = 100
    /\ graph = <<>>
    /\ edge_list = <<>>
    /\ current_step = 0
    /\ traffic = [kind |-> "None"]
    /\ link_open = <<>>
    /\ usage = <<>>
    /\ call = [op |-> "__init__"]
    /\ ret = [kind |-> "running"]
    /\ Unseeded

SpecConfiguration == InitConfiguration /\ [][NextTopology]_vars

-----------------------------------------------------------------------------
(* The routing on its own: one reset of a new environment, to a demand     *)
(* matrix of up to MaxRoutedDemands demands, and one step                  *)

FirstReset ==
    /\ call.op = "__init__"
    /\ \E tm \in TrafficMatrices(num_nodes, MaxRoutedDemands) : ResetTo(tm)
    /\ UNCHANGED <<np_random, peer, own_random>>

FirstStep ==
    /\ call.op = "reset"
    /\ StepAny

NextRouting == FirstReset \/ FirstStep

SpecRouting == Init /\ [][NextRouting]_vars

-----------------------------------------------------------------------------
(* The routing over links of ample capacity: the environment is built with *)
(* a max_capacity above the sum of two small demands                       *)

InitAmple ==
    /\ Unseeded
    /\ \E n \in 0..MaxNodes, m \in 1..MaxInterfaceLimit, c \in AmpleCapacityValues,
          s \in 1..MaxHorizon :
           \E all_nodes \in PermSeqs(Nodes(n)) :
           \E G1 \in {Chain(n, m, c, all_nodes)} :
           \E shuffled \in Shuffles(G1, n) :
               Constructed(n, m, c, s, Extra(G1, shuffled, m, c))

SpecAmple == InitAmple /\ [][NextRouting]_vars

-----------------------------------------------------------------------------
(* The flags on their own: one reset of a new environment and one step,    *)
(* whose action has the right length and entries among FlagValues          *)

\* step copies the action as it is (line 182): nothing restricts an entry
\* to 0 and 1
Flags(ne) == [1..ne -> FlagValues]

NewReset ==
    /\ call.op = "__init__"
    /\ Reset

StepFlags ==
    /\ call.op = "reset"
    /\ \E action \in Flags(num_edges) : Step(action)

NextFlags == NewReset \/ StepFlags

SpecFlags == Init /\ [][NextFlags]_vars

-----------------------------------------------------------------------------
(* Two instances in one process: this environment is built with a seed,    *)
(* and another NetworkEnv is built and reset between its resets.  Of the   *)
(* other instance the graph and the demand matrix are kept.                *)

\* np.random after `if seed is not None: np.random.seed(seed)`
Seeded(g, sd) == IF sd = None THEN g ELSE np_random_seed(sd)

InitInstances ==
    \E n \in 1..MaxNodes, m \in 1..MaxInterfaceLimit, sd \in 0..MaxSeed :
        \E b \in {build_topology(n, m, DefaultMaxCapacity,
                                  Seeded([kind |-> "entropy"], sd))} :
            /\ Constructed(n, m, DefaultMaxCapacity, DefaultMaxSteps, b.graph)
            /\ np_random = b.rng
            /\ own_random = b.rng
            /\ peer = [kind |-> "None"]

\* reset, with the demand matrix drawn from np.random
ResetSeeded ==
    /\ np_random.drawn <= MaxDrawn
    /\ own_random.drawn <= MaxDrawn
    /\ \E r \in {np_random_randint(np_random, 0, 50, num_nodes)} :
          /\ ResetTo(ZeroDiagonal(r.data))
          /\ np_random' = r.rng
    /\ own_random' = np_random_randint(own_random, 0, 50, num_nodes).rng
    /\ UNCHANGED peer

\* NetworkEnv(num_nodes=n, seed=sd) for the other instance, sd = None for
\* no seed: its other arguments take their defaults
PeerInit ==
    /\ np_random.drawn <= MaxDrawn
    /\ \E n \in 1..MaxNodes, sd \in {None} \cup 0..MaxSeed :
       \E b \in {build_topology(n, DefaultMaxInterfaces, DefaultMaxCapacity,
                                 Seeded(np_random, sd))} :
          /\ np_random' = b.rng
          /\ peer' = [kind |-> "NetworkEnv", num_nodes |-> n, graph |-> b.graph,
                      traffic |-> [kind |-> "None"]]
    /\ UNCHANGED <<num_nodes, max_interfaces, max_capacity, max_steps, graph, edge_list,
                   current_step, traffic, link_open, usage, call, ret, own_random>>

\* reset of the other instance
PeerReset ==
    /\ peer.kind = "NetworkEnv"
    /\ np_random.drawn <= MaxDrawn
    /\ \E r \in {np_random_randint(np_random, 0, 50, peer.num_nodes)} :
          /\ np_random' = r.rng
          /\ peer' = [peer EXCEPT !.traffic = [kind |-> "ndarray",
                                               data |-> ZeroDiagonal(r.data)]]
    /\ UNCHANGED <<num_nodes, max_interfaces, max_capacity, max_steps, graph, edge_list,
                   current_step, traffic, link_open, usage, call, ret, own_random>>

NextInstances == ResetSeeded \/ PeerInit \/ PeerReset

SpecInstances == InitInstances /\ [][NextInstances]_vars

-----------------------------------------------------------------------------
(* What the properties speak of, stated on the state alone                 *)

\* the last call returned normally
Returned == ret.kind = "return"

\* a reset or a step has returned, so that usage is the routing of traffic
Routed == Returned /\ call.op \in {"reset", "step"} /\ traffic.kind = "ndarray"

StepReturned == Returned /\ call.op = "step"

LinkCapacity(k) == Capacity(graph, edge_list[k][1], edge_list[k][2])

\* the links the routing treats as open
OpenLinks == {k \in 1..num_edges : k <= Len(link_open) /\ link_open[k] = 1}

Joins(k, u, v) == edge_list[k] = <<u, v>> \/ edge_list[k] = <<v, u>>

Linked(u, v) == \E k \in OpenLinks : Joins(k, u, v)

\* the nodes of B and their neighbours over open links
Around(B) == B \cup {v \in Nodes(num_nodes) : \E x \in B : Linked(x, v)}

RECURSIVE Within(_, _)
\* the nodes at most d open links away from u
Within(u, d) == IF d = 0 THEN {u} ELSE Around(Within(u, d - 1))

Connected(u, v) == v \in Within(u, num_nodes)

\* the hop distance from u to v in the open subgraph, for connected u and v
HopDistance(u, v) ==
    CHOOSE d \in 0..num_nodes : v \in Within(u, d) /\ \A e \in 0..(d - 1) : v \notin Within(u, e)

\* the ordered pairs with a positive demand
Demands == {ij \in OffDiagonal(num_nodes) : traffic.data[ij[1]][ij[2]] > 0}

Demand == [ij \in OffDiagonal(num_nodes) |-> traffic.data[ij[1]][ij[2]]]

\* the route the routing chooses for a pair (NoPath when there is none)
Route(ij) == shortest_path(G_open(num_nodes, edge_list, link_open, graph), ij[1], ij[2])

\* p is a walk over open links from u to v
IsRoute(p, u, v) ==
    /\ Len(p) >= 1
    /\ p[1] = u
    /\ p[Len(p)] = v
    /\ \A x \in 1..(Len(p) - 1) : Linked(p[x], p[x + 1])

Traverses(p, k) == \E x \in 1..(Len(p) - 1) : Joins(k, p[x], p[x + 1])

RECURSIVE SumOver(_, _)
\* the sum of weight(x) over the elements x of S
SumOver(S, weight) ==
    IF S = {} THEN 0
    ELSE LET x == CHOOSE x \in S : TRUE IN weight[x] + SumOver(S \ {x}, weight)

\* the demand whose chosen route traverses link k
RoutedOver(k) ==
    SumOver({ij \in Demands : Connected(ij[1], ij[2]) /\ Traverses(Route(ij), k)}, Demand)

OverloadedLinks == {k \in 1..num_edges : usage[k] > LinkCapacity(k)}

\* the index of the link joining u and v
LinkOf(u, v) == CHOOSE k \in 1..num_edges : Joins(k, u, v)

\* the triangle on the nodes 0, 1, 2
Triangle == num_nodes = 3 /\ num_edges = 3

\* the only positive demand is d, from node 0 to node 2
SoleDemand(d) == Demands = {<<0, 2>>} /\ traffic.data[0][2] = d

-----------------------------------------------------------------------------
(* C1: when step returns, the reward is minus the number of links whose    *)
(* usage is strictly above their capacity, and info's overloaded_links is  *)
(* that number; a link whose usage equals its capacity is not counted.     *)
C1_RewardIsMinusOverloadCount ==
    StepReturned =>
        /\ ret.info.overloaded_links = Cardinality(OverloadedLinks)
        /\ ret.reward = 0 - Cardinality(OverloadedLinks)
        /\ \A k \in 1..num_edges : usage[k] = LinkCapacity(k) => k \notin OverloadedLinks

\* a step after which a link carries exactly its positive capacity, and no
\* link is counted
C1_Witness ==
    /\ StepReturned
    /\ \E k \in 1..num_edges : usage[k] = LinkCapacity(k) /\ usage[k] > 0
    /\ ret.reward = 0

(* C2: after a reset or a step, every positive demand between connected    *)
(* nodes takes one route, a path of open links of minimum hop count, and   *)
(* a demand between disconnected nodes takes none; the usage of a link is  *)
(* the sum of the demands whose route traverses it, so the usages add up   *)
(* to the sum of demand times hop distance.  On the triangle with capacity *)
(* 10 and the sole demand 0->2 = 15: usage 15 on (0,2) and reward -1 with  *)
(* all links open, usage 15 on (0,1) and (1,2) and reward -2 with only     *)
(* (0,2) closed.                                                           *)
C2_UsageIsShortestPathRouting ==
    Routed =>
        /\ \A ij \in Demands :
              IF Connected(ij[1], ij[2])
              THEN /\ IsRoute(Route(ij), ij[1], ij[2])
                   /\ Len(Route(ij)) - 1 = HopDistance(ij[1], ij[2])
              ELSE Route(ij) = NoPath
        /\ \A k \in 1..num_edges : usage[k] = RoutedOver(k)
        /\ SumSeq(usage) =
              SumOver({ij \in Demands : Connected(ij[1], ij[2])},
                      [ij \in Demands |-> Demand[ij] * HopDistance(ij[1], ij[2])])
        /\ (Triangle /\ max_capacity = 10 /\ SoleDemand(15)) =>
              /\ OpenLinks = 1..3 =>
                    /\ usage[LinkOf(0, 2)] = 15
                    /\ Cardinality(OverloadedLinks) = 1
                    /\ call.op = "step" => ret.reward = -1
              /\ OpenLinks = (1..3) \ {LinkOf(0, 2)} =>
                    /\ usage[LinkOf(0, 1)] = 15
                    /\ usage[LinkOf(1, 2)] = 15
                    /\ Cardinality(OverloadedLinks) = 2
                    /\ call.op = "step" => ret.reward = -2

\* the step that closes only (0,2) on that triangle
C2_Witness ==
    /\ StepReturned
    /\ Triangle /\ max_capacity = 10 /\ SoleDemand(15)
    /\ link_open = [k \in 1..3 |-> IF k = LinkOf(0, 2) THEN 0 ELSE 1]
    /\ usage = [k \in 1..3 |-> IF k = LinkOf(0, 2) THEN 0 ELSE 15]
    /\ ret.reward = -2

(* C3: every step call adds exactly one to the step counter, also after    *)
(* done and also when it raises; a reset puts the counter back to 0; and   *)
(* the done flag of the k-th step since the reset is true exactly when     *)
(* k >= max_steps, so it stays true on every later step.                   *)
C3_DoneIffHorizonReached ==
    /\ [][/\ call'.op = "step" => current_step' = current_step + 1
          /\ call'.op = "reset" => current_step' = 0]_vars
    /\ [](StepReturned => (ret.done <=> current_step >= max_steps))

\* a step made after the horizon was reached, which still returns done
C3_Witness ==
    /\ StepReturned
    /\ traffic.kind = "ndarray"
    /\ current_step > max_steps
    /\ ret.done

(* C4: a step whose action has not exactly num_edges entries raises        *)
(* InvalidAction and leaves the step counter, the link states and the      *)
(* usage as they were.                                                     *)
C4_WrongLengthRejected ==
    [][(call'.op = "step" /\ Len(call'.action) # num_edges) =>
          /\ ret'.kind = "raise"
          /\ ret'.exc = "InvalidAction"
          /\ current_step' = current_step
          /\ link_open' = link_open
          /\ usage' = usage]_vars

(* C5: what a step yields depends on its action alone: the link states     *)
(* are the action, the usage is the routing of the demands over the        *)
(* action's open links started from an all-zero vector, whatever the       *)
(* earlier steps were, and a step whose action equals the current link     *)
(* states returns the usage, observation, overload count and reward of     *)
(* the call before it.                                                     *)
C5_StepIndependentOfHistory ==
    /\ [](call.op = "step" => link_open = call.action)
    /\ [](StepReturned =>
            usage = update_link_usage(num_nodes, edge_list, call.action, graph,
                                      traffic, Zeros(num_edges)).usage)
    /\ [][(/\ Returned /\ call.op \in {"reset", "step"}
           /\ call'.op = "step" /\ ret'.kind = "return"
           /\ call'.action = link_open) =>
              /\ usage' = usage
              /\ ret'.obs = ret.obs
              /\ call.op = "step" =>
                    /\ ret'.reward = ret.reward
                    /\ ret'.info = ret.info]_vars

\* a second step of an episode, with a link closed and traffic on the rest
C5_Witness ==
    /\ StepReturned
    /\ traffic.kind = "ndarray"
    /\ current_step = 2
    /\ num_edges = 3
    /\ Cardinality(OpenLinks) = 2
    /\ SumSeq(usage) > 0

(* C6: a reset, from whatever state, leaves the step counter at 0, every   *)
(* link open and the usage equal to the routing of the new demand matrix   *)
(* over all links; the step that follows it returns done = false when      *)
(* max_steps > 1.                                                          *)
C6_ResetStartsEpisode ==
    /\ [](call.op = "reset" =>
            /\ Returned
            /\ current_step = 0
            /\ link_open = Ones(num_edges)
            /\ OpenLinks = 1..num_edges
            /\ \A k \in 1..num_edges : usage[k] = RoutedOver(k))
    /\ [][(call.op = "reset" /\ call'.op = "step" /\ ret'.kind = "return"
           /\ max_steps > 1) => ret'.done = FALSE]_vars

\* a reset that routes traffic over a triangle
C6_Witness ==
    /\ call.op = "reset"
    /\ Triangle
    /\ max_steps > 1
    /\ SumSeq(usage) > 0

(* C7: a step whose action closes every link leaves every usage at 0, an   *)
(* overload count of 0 and a reward of 0, whatever the demands, the        *)
(* topology and the state before it.                                       *)
C7_AllClosedMeansNoUsage ==
    (StepReturned /\ \A k \in 1..Len(call.action) : call.action[k] = 0) =>
        /\ usage = Zeros(num_edges)
        /\ ret.info.overloaded_links = 0
        /\ ret.reward = 0

\* every link of a triangle closed while there is a demand
C7_Witness ==
    /\ StepReturned
    /\ traffic.kind = "ndarray"
    /\ Triangle
    /\ call.action = Zeros(3)
    /\ Demands # {}
    /\ usage = Zeros(3)

\* the demand matrix without the demands between disconnected nodes
ConnectedDemands ==
    [i \in Nodes(num_nodes) |-> [j \in Nodes(num_nodes) |->
        IF Connected(i, j) THEN traffic.data[i][j] ELSE 0]]

(* C8: when the action disconnects the two ends of a positive demand, the  *)
(* step returns normally, that demand has no route and adds nothing, and   *)
(* the usage is the routing of the demands that are still connected.  On   *)
(* the triangle with the sole demand 0->2 = 5, closing (0,2) and (0,1)     *)
(* gives usage 0 on every link, no overload and reward 0.                  *)
C8_NoPathDemandDropped ==
    (/\ call.op = "step" /\ traffic.kind = "ndarray" /\ Len(call.action) >= num_edges
     /\ \E ij \in Demands : ~Connected(ij[1], ij[2])) =>
        /\ Returned
        /\ \A ij \in Demands : ~Connected(ij[1], ij[2]) => Route(ij) = NoPath
        /\ usage = update_link_usage(num_nodes, edge_list, link_open, graph,
                                     [kind |-> "ndarray", data |-> ConnectedDemands],
                                     Zeros(num_edges)).usage
        /\ \A k \in 1..num_edges :
              usage[k] = SumOver({ij \in Demands : Connected(ij[1], ij[2])
                                                  /\ Traverses(Route(ij), k)}, Demand)
        /\ (Triangle /\ SoleDemand(5) /\ OpenLinks = {LinkOf(1, 2)}) =>
              /\ usage = Zeros(3)
              /\ ret.info.overloaded_links = 0
              /\ ret.reward = 0

\* that triangle, after the step that closes (0,2) and (0,1)
C8_Witness ==
    /\ StepReturned
    /\ traffic.kind = "ndarray"
    /\ Triangle /\ SoleDemand(5)
    /\ OpenLinks = {LinkOf(1, 2)}
    /\ usage = Zeros(3)
    /\ ret.reward = 0

(* C9: after topology generation with num_nodes >= 1 and                   *)
(* max_interfaces >= 1, every node has at most max_interfaces links.       *)
C9_DegreeWithinInterfaces ==
    (Returned /\ num_nodes >= 1 /\ max_interfaces >= 1) =>
        \A u \in Nodes(num_nodes) : degree(graph, u) <= max_interfaces

\* the nodes of B and their neighbours in the graph
Grown(B) == B \cup {v \in Nodes(num_nodes) : \E x \in B : has_edge(graph, x, v)}

RECURSIVE Reach(_, _)
\* the nodes at most d links of the graph away from u
Reach(u, d) == IF d = 0 THEN {u} ELSE Grown(Reach(u, d - 1))

\* the nodes of B and their neighbours over the links of edge_list
GrownLinks(B) ==
    B \cup {v \in Nodes(num_nodes) : \E x \in B : \E k \in 1..num_edges : Joins(k, x, v)}

RECURSIVE ReachLinks(_, _)
\* the nodes at most d links of edge_list away from u
ReachLinks(u, d) == IF d = 0 THEN {u} ELSE GrownLinks(ReachLinks(u, d - 1))

(* C10: after topology generation with num_nodes >= 1, whatever            *)
(* max_interfaces and the shuffles, some ordering of the nodes has all its *)
(* consecutive nodes linked, and so every pair of nodes is joined by a     *)
(* path of links, in the graph and in edge_list.                           *)
C10_TopologyConnected ==
    (Returned /\ num_nodes >= 1) =>
        /\ \E p \in PermSeqs(Nodes(num_nodes)) :
              \A x \in 1..(num_nodes - 1) : has_edge(graph, p[x], p[x + 1])
        /\ \A u \in Nodes(num_nodes) : Reach(u, num_nodes) = Nodes(num_nodes)
        /\ \A u \in Nodes(num_nodes) : ReachLinks(u, num_nodes) = Nodes(num_nodes)

\* a generated topology on three or more nodes with no interface to spare
C10_Witness ==
    /\ Returned
    /\ num_nodes >= 3
    /\ max_interfaces = 0
    /\ num_edges = num_nodes - 1

(* C11: no reset and no step changes the topology: the node count, the     *)
(* length of the link list, the endpoints at each index and every link's   *)
(* capacity are after the call what they were before it, and so what they  *)
(* were after construction.                                                *)
C11_TopologyImmutable ==
    [][(call'.op \in {"reset", "step"}) =>
          /\ num_nodes' = num_nodes
          /\ Len(edge_list') = Len(edge_list)
          /\ \A k \in 1..Len(edge_list) : edge_list'[k] = edge_list[k]
          /\ \A k \in 1..Len(edge_list) :
                Capacity(graph', edge_list[k][1], edge_list[k][2]) = LinkCapacity(k)
          /\ graph' = graph]_vars

\* a second step of an episode that leaves one link of three open, with the
\* link list still the graph's and every capacity still max_capacity
C11_Witness ==
    /\ call.op = "step"
    /\ current_step = 2
    /\ num_edges = 3
    /\ Cardinality(OpenLinks) = 1
    /\ edge_list = Edges(graph, num_nodes)
    /\ \A k \in 1..num_edges : LinkCapacity(k) = max_capacity

(* C16: the link list that topology generation produces has no link from   *)
(* a node to itself and no two indices joining the same pair of nodes.     *)
C16_NoDuplicateNoSelfLoop ==
    Returned =>
        /\ \A k \in 1..num_edges : edge_list[k][1] # edge_list[k][2]
        /\ \A a, b \in 1..num_edges :
              a # b => ~Joins(b, edge_list[a][1], edge_list[a][2])

\* a generated topology in which every pair of four nodes is linked
C16_Witness ==
    /\ Returned
    /\ num_nodes = 4
    /\ num_edges = 6

(* C17: after a reset or a step that returned, a link with usage above 0   *)
(* is open; so every overloaded link is open, the overload count is at     *)
(* most the number of open links, and the reward of the step lies between  *)
(* minus that number and 0.                                                *)
C17_ClosedLinksCarryNothing ==
    Routed =>
        /\ \A k \in 1..num_edges : usage[k] > 0 => k \in OpenLinks
        /\ OverloadedLinks \subseteq OpenLinks
        /\ Cardinality(OverloadedLinks) <= Cardinality(OpenLinks)
        /\ call.op = "step" =>
              /\ ret.reward >= 0 - Cardinality(OpenLinks)
              /\ ret.reward <= 0

\* a step that closes one link of three and overloads the two others
C17_Witness ==
    /\ StepReturned
    /\ traffic.kind = "ndarray"
    /\ num_edges = 3
    /\ Cardinality(OpenLinks) = 2
    /\ OverloadedLinks = OpenLinks
    /\ ret.reward = -2

(* C18: a step leaves the demand matrix as it was, whatever its action and *)
(* however it ends; the demand matrix changes only in a reset.             *)
C18_StepKeepsDemands ==
    [][/\ call'.op = "step" => traffic' = traffic
       /\ traffic' # traffic => call'.op = "reset"]_vars

\* a second step of an episode, made on the demands its reset drew
C18_Witness ==
    /\ StepReturned
    /\ traffic.kind = "ndarray"
    /\ current_step = 2
    /\ Demands # {}
    /\ SumSeq(usage) > 0

\* the environment has no demand matrix: it was never reset
Uninitialized == traffic.kind = "None"

(* C19: while an environment of one or more nodes was never reset, every   *)
(* step raises and leaves it without a demand matrix; only a reset gives   *)
(* it one, and that reset returns with the step counter at 0, however many *)
(* steps failed before it.                                                 *)
C19_StepFailsBeforeReset ==
    /\ []((Uninitialized /\ num_nodes >= 1 /\ call.op = "step") => ret.kind = "raise")
    /\ [][(Uninitialized /\ num_nodes >= 1 /\ call'.op = "step") =>
             /\ Uninitialized'
             /\ ret'.kind = "raise"]_vars
    /\ [][(Uninitialized /\ ~Uninitialized') =>
             /\ call'.op = "reset"
             /\ ret'.kind = "return"
             /\ current_step' = 0]_vars

\* two steps made before any reset: both failed, and both were counted
C19_Witness ==
    /\ Uninitialized
    /\ num_nodes >= 1
    /\ call.op = "step"
    /\ Len(call.action) = num_edges
    /\ ret.kind = "raise"
    /\ ret.exc = "TypeError"
    /\ current_step = 2

\* __init__ was called with a num_nodes, max_interfaces or max_steps that is
\* not positive
OutOfRange == num_nodes <= 0 \/ max_interfaces <= 0 \/ max_steps <= 0

(* C13: when __init__ is called with num_nodes <= 0, max_interfaces <= 0   *)
(* or max_steps <= 0, it ends by raising: it never returns an environment. *)
C13_OutOfRangeRejected ==
    (call.op = "__init__" /\ OutOfRange /\ ret.kind # "running") => ret.kind = "raise"

(* C14: in the observation a reset or a step with an action of the right   *)
(* length returns, for every link (Python index i, here k = i + 1) entry   *)
(* 2i+1 is 1 if the routing of that call treated the link as open and 0 if *)
(* it treated it as closed, and entry 2i is the link's usage over its      *)
(* capacity, 0 if the capacity is 0.                                       *)
C14_ObservationShowsRoutedFlags ==
    (Returned /\ call.op \in {"reset", "step"} /\ Len(link_open) = num_edges) =>
        /\ Len(ret.obs) = 2 * num_edges
        /\ \A k \in 1..num_edges :
              /\ ret.obs[2 * k] = (IF k \in OpenLinks THEN 1 ELSE 0)
              /\ ret.obs[2 * k - 1] = (IF LinkCapacity(k) = 0 THEN <<0, 1>>
                                       ELSE <<usage[k], LinkCapacity(k)>>)

\* the sum of all entries of the demand matrix
TotalDemand == SumOver(OffDiagonal(num_nodes), Demand)

(* C15: after a reset or a step that returned, the usage of every link is  *)
(* at most the sum of all demands; so when every link's capacity is above  *)
(* that sum, the state a reset leaves, with all links open, has an         *)
(* overload count of 0.                                                    *)
C15_AmpleCapacityNeverOverloaded ==
    Routed =>
        /\ \A k \in 1..num_edges : usage[k] <= TotalDemand
        /\ (/\ call.op = "reset"
            /\ \A k \in 1..num_edges : LinkCapacity(k) > TotalDemand) =>
              /\ OpenLinks = 1..num_edges
              /\ OverloadedLinks = {}
              /\ count_overloaded_links(edge_list, graph, usage) = 0

\* a reset after which one link carries both demands, 20 in all, below its
\* capacity of 25
C15_Witness ==
    /\ Routed
    /\ call.op = "reset"
    /\ Cardinality(Demands) = 2
    /\ TotalDemand = 20
    /\ num_edges >= 2
    /\ \A k \in 1..num_edges : LinkCapacity(k) > TotalDemand
    /\ \E k \in 1..num_edges : usage[k] = TotalDemand

(* C12: the demand matrices the successive resets of an environment built  *)
(* with a seed draw are those of its own stream: each reset draws the      *)
(* matrix it would draw had no other instance been built or reset in the   *)
(* process, whatever was interleaved.                                      *)
C12_DemandsIndependentOfPeer ==
    [][(call'.op = "reset" /\ own_random' # own_random) =>
          traffic'.data = ZeroDiagonal(np_random_randint(own_random, 0, 50, num_nodes).data)]_vars

====
